---- MODULE Spec2Model ----
(***************************************************************************)
(* hikari-miru: the interaction registry (miru/events.py), the dispatcher  *)
(* on_inter and the View's event processing (miru/view.py).                *)
(***************************************************************************)
EXTENDS Integers, Sequences, FiniteSets, TLC

\* ---------------------------------------------------------------- bounds
NumHandlers == 2
MaxKeys == 2
MaxClock == 4

\* view.py line 262: the implicit defer is skipped once more than 3 seconds
\* have passed since the task started.
AutodeferWindow == 3

Handlers == 1..NumHandlers
\* The absent handler: dict.get() returning None.
NoHandler == 0

\* Routing keys: custom ids are strings and message ids are snowflakes in the
\* code, so a custom id never equals a message id.
Cid(n) == <<"cid", n>>
Mid(n) == <<"mid", n>>
CustomIds == {Cid(1), Cid(2)}
MessageIds == {Mid(1)}
Keys == CustomIds \cup MessageIds

\* The argument tuples *custom_ids of the add calls made on the registry: up
\* to MaxKeys keys, repeats included, over one custom id and one message id.
CallKeys == {Cid(1), Mid(1)}
KeyTuples == UNION {[1..n -> CallKeys] : n \in 1..MaxKeys}

Range(s) == {s[i] : i \in 1..Len(s)}

VARIABLES
    reg,            \* EventManager.reg: key -> handler or NoHandler
    item_handlers,  \* EventManager.item_handlers: handler -> recorded key tuple
    stopped,        \* per handler: marked terminated by stop()
    stops,          \* per handler: stop() calls made during the last operation
    err,            \* the exception the last operation raised, or "none"
    last,           \* the last registry call: its name, its handler, the keys
                    \* passed and the handlers that owned them before the call
    added,          \* history: the handlers that have called add
    plain           \* history: every add so far was a handler's first add and
                    \* passed pairwise different keys

VARIABLES
    children,       \* per handler: its items, each with its custom_id
    autodefer,      \* per handler: the autodefer flag
    last_context,   \* per handler: _last_context (0: None, else the dispatch)
    inputted,       \* per handler: the asyncio.Event _inputted
    clock,          \* datetime.datetime.now(), in seconds
    disp,           \* per inbound event: the run of on_inter for it
    tasks,          \* per inbound event: the callback tasks created for it
    issued,         \* per interaction: interaction._issued_response
    replies,        \* per interaction: initial replies issued on it
    inbound,        \* the number of events the transport delivers in this run
    waiters         \* the application tasks that call wait_for_input

VARIABLES
    timeout,        \* per handler: View.timeout (0: None)
    message_id,     \* per handler: View._message_id, or NoMessage when unbound
    app             \* View._app is set: miru.load() has run

regvars == <<reg, item_handlers, stopped, stops, err, last, added, plain>>
viewvars == <<children, autodefer, last_context, inputted>>
dispvars == <<clock, disp, tasks, issued, replies, inbound, waiters>>
lifevars == <<timeout, message_id, app>>
vars == <<regvars, viewvars, dispvars, lifevars>>

\* ------------------------------------------------------------- registry
NoEntry == [has |-> FALSE, ids |-> <<>>]
Entry(ids) == [has |-> TRUE, ids |-> ids]

\* EventManager.__init__ and freshly constructed handlers.
EmptyRegistry ==
    [reg |-> [k \in Keys |-> NoHandler],
     item_handlers |-> [h \in Handlers |-> NoEntry],
     stopped |-> [h \in Handlers |-> FALSE],
     stops |-> [h \in Handlers |-> 0],
     err |-> "none"]

\* EventManager.get
Get(st, k) == st.reg[k]

\* for custom_id in self.item_handlers[item_handler]: self.reg.pop(custom_id, None)
PopKeys(r, ids) == [k \in Keys |-> IF k \in Range(ids) THEN NoHandler ELSE r[k]]

Pop_KeepEntry(st, h) ==
    IF ~st.item_handlers[h].has
    THEN [st EXCEPT !.err = "KeyError"]
    ELSE [st EXCEPT !.reg = PopKeys(st.reg, st.item_handlers[h].ids)]

\* EventManager.pop: item_handlers[item_handler] raises KeyError when the
\* handler has no entry; otherwise its recorded keys and its entry are deleted.
Pop(st, h) ==
    IF ~st.item_handlers[h].has
    THEN [st EXCEPT !.err = "KeyError"]
    ELSE [st EXCEPT !.reg = PopKeys(st.reg, st.item_handlers[h].ids),
                    !.item_handlers[h] = NoEntry]

\* ItemHandler.stop: the handler is marked terminated (its timeout supervision
\* is cancelled) and it is removed from the registry.
HandlerStop(st, h) ==
    Pop([st EXCEPT !.stopped[h] = TRUE, !.stops[h] = @ + 1], h)

AddKey_NoStop(st, h, k) == [st EXCEPT !.reg[k] = h]

\* One iteration of the loop of EventManager.add: the owner found under the
\* key is stopped, then the key is assigned to item_handler.  An exception
\* raised by stop() leaves the loop before the assignment.
AddKey(st, h, k) ==
    LET owner == Get(st, k)
        s1 == IF owner # NoHandler THEN HandlerStop(st, owner) ELSE st
    IN  IF s1.err # "none" THEN s1 ELSE [s1 EXCEPT !.reg[k] = h]

RECURSIVE AddLoop(_, _, _, _)
AddLoop(st, h, ids, i) ==
    IF i > Len(ids) \/ st.err # "none" THEN st
    ELSE AddLoop(AddKey(st, h, ids[i]), h, ids, i + 1)

\* self.item_handlers[item_handler] = custom_ids, reached when the loop ended
\* without an exception.
RecordKeys(st, h, ids) ==
    IF st.err # "none" THEN st ELSE [st EXCEPT !.item_handlers[h] = Entry(ids)]

\* EventManager.add
Add(st, h, ids) == RecordKeys(AddLoop(st, h, ids, 1), h, ids)

\* The registry as one value, and a call's starting point: no exception
\* pending, no stop() counted yet.
Registry ==
    [reg |-> reg, item_handlers |-> item_handlers, stopped |-> stopped,
     stops |-> [h \in Handlers |-> 0], err |-> "none"]

SetRegistry(st) ==
    /\ reg' = st.reg
    /\ item_handlers' = st.item_handlers
    /\ stopped' = st.stopped
    /\ stops' = st.stops
    /\ err' = st.err

\* ------------------------------------------------------- registry calls
NoDuplicates(ids) == \A i, j \in 1..Len(ids) : ids[i] = ids[j] => i = j

AddOp(h, ids) ==
    /\ \E st \in {Add(Registry, h, ids)} : SetRegistry(st)
    /\ last' = [op |-> "add", h |-> h, keys |-> Range(ids),
                owners |-> {reg[k] : k \in Range(ids)} \ {NoHandler}]
    /\ added' = added \cup {h}
    /\ plain' = (plain /\ h \notin added /\ NoDuplicates(ids))
    /\ UNCHANGED <<lifevars, viewvars, dispvars>>

PopOp(h) ==
    /\ \E st \in {Pop(Registry, h)} : SetRegistry(st)
    /\ last' = [op |-> "pop", h |-> h, keys |-> {}, owners |-> {}]
    /\ UNCHANGED <<added, plain, lifevars, viewvars, dispvars>>

\* An explicit stop() of a handler, or its timeout elapsing.
StopOp(h) ==
    /\ \E st \in {HandlerStop(Registry, h)} : SetRegistry(st)
    /\ last' = [op |-> "stop", h |-> h, keys |-> {}, owners |-> {}]
    /\ UNCHANGED <<added, plain, lifevars, viewvars, dispvars>>

\* ---------------------------------------------------------------- views
\* The inbound events followed through the dispatcher; an event's number also
\* names its interaction and the context built for it.
Slots == {1, 2}
NoContext == 0

\* The views the application built: one with two items under the same
\* custom_id, one with two items under different custom_ids.
\* An item with a callback and a custom_id given by the application (which
\* makes it persistent), and a Button with a url, which has no custom_id.
NoCid == Cid(0)
Item(cid) == [custom_id |-> cid, url |-> FALSE, persistent |-> TRUE]
LinkItem == [custom_id |-> NoCid, url |-> TRUE, persistent |-> FALSE]
BuiltChildren ==
    [h \in Handlers |->
        IF h = 1 THEN <<Item(Cid(1)), Item(Cid(1))>>
        ELSE <<Item(Cid(1)), Item(Cid(2))>>]

IdleDispatch == [pc |-> "idle", ev |-> <<>>, h |-> NoHandler, items |-> <<>>,
                 outcome |-> "none"]

\* Inbound events.  A component interaction always carries its message; a
\* modal submission may carry none; other interaction kinds have no custom_id.
NoMessage == Mid(0)
Events ==
    [kind : {"component"}, custom_id : CustomIds, message : MessageIds]
    \cup [kind : {"modal"}, custom_id : CustomIds,
          message : MessageIds \cup {NoMessage}]
    \cup [kind : {"command"}, custom_id : {NoCid}, message : {NoMessage}]

\* A callback task as created: the coroutine _handle_callback(item, context)
\* has not run yet.  hook lists the calls of on_error made by the task, and
\* current notes the handler's last context at the time of creation.
NewTask == [pc |-> "spawned", now |-> 0, replied |-> FALSE, deferred |-> FALSE,
            error |-> "none", checked |-> FALSE, seen |-> 0, elapsed |-> 0,
            item |-> 0, context |-> NoContext, hook |-> <<>>,
            current |-> NoContext]

\* The application tasks that may call wait_for_input, and one that has not.
\* A waiter notes the handler it waits on, when the wait began, its timeout
\* (NoTimeout: None) and, as history, the task whose start resumed it, the
\* tasks that had started before the wait began and the events delegated to
\* the handler during the wait.
Waiters == {1, 2}
NoTask == <<0, 0>>
IdleWaiter == [pc |-> "idle", h |-> NoHandler, since |-> 0, limit |-> 0,
               by |-> NoTask, before |-> {}, events |-> {}]

\* Views are constructed with timeout=120.0 unless told otherwise, and are
\* unbound until start() is given their message.
DefaultTimeout == 120
NoTimeout == 0

InitViews ==
    /\ children = BuiltChildren
    /\ timeout = [h \in Handlers |-> DefaultTimeout]
    /\ message_id = [h \in Handlers |-> NoMessage]
    /\ app = TRUE
    /\ last_context = [h \in Handlers |-> NoContext]
    /\ inputted = [h \in Handlers |-> FALSE]
    /\ clock = 0
    /\ disp = [d \in Slots |-> IdleDispatch]
    /\ tasks = [d \in Slots |-> <<>>]
    /\ issued = [d \in Slots |-> FALSE]
    /\ replies = [d \in Slots |-> 0]
    /\ waiters = [w \in Waiters |-> IdleWaiter]

\* Views are constructed with autodefer=True unless told otherwise.
InitReg ==
    /\ InitViews
    /\ inbound = 0
    /\ autodefer = [h \in Handlers |-> TRUE]
    /\ reg = EmptyRegistry.reg
    /\ item_handlers = EmptyRegistry.item_handlers
    /\ stopped = EmptyRegistry.stopped
    /\ stops = EmptyRegistry.stops
    /\ err = "none"
    /\ last = [op |-> "init", h |-> NoHandler, keys |-> {}, owners |-> {}]
    /\ added = {}
    /\ plain = TRUE

NextReg ==
    \/ \E h \in Handlers, ids \in KeyTuples : AddOp(h, ids)
    \/ \E h \in Handlers : PopOp(h)
    \/ \E h \in Handlers : StopOp(h)

\* ------------------------------------------------------------ lifecycle
\* View.is_persistent
IsPersistent(h) ==
    /\ timeout[h] = NoTimeout
    /\ \A i \in DOMAIN children[h] : children[h][i].persistent

LinkOnly_Never(h) == FALSE

\* Line 338: every item is a Button with a url (true of a view with no item).
LinkOnly(h) == \A i \in DOMAIN children[h] : children[h][i].url

\* _events.subscribe(...): _events is the EventManager of events.py, which
\* defines __init__, add, pop and get only, so the attribute lookup raises
\* AttributeError before anything is registered.
Subscribe(st, h, ids) == [st EXCEPT !.err = "AttributeError"]

\* [item.custom_id for item in self._children]
RECURSIVE ItemIds(_, _)
ItemIds(items, i) ==
    IF i > Len(items) THEN <<>>
    ELSE <<items[i].custom_id>> \o ItemIds(items, i + 1)

\* View.start_listener
StartListenerOp(h) ==
    /\ IF ~IsPersistent(h)
       THEN /\ err' = "ValueError"
            /\ stops' = [g \in Handlers |-> 0]
            /\ UNCHANGED <<reg, item_handlers, stopped>>
       ELSE \E st \in {Subscribe(Registry, h, ItemIds(children[h], 1))} :
               SetRegistry(st)
    /\ last' = [op |-> "start_listener", h |-> h,
                keys |-> Range(ItemIds(children[h], 1)), owners |-> {}]
    /\ UNCHANGED <<added, plain, lifevars, viewvars, dispvars>>

\* View.start for a message (awaited first when it is an awaitable); msg is
\* NoMessage when what was passed does not resolve to a hikari.Message.
StartOp(h, msg) ==
    /\ IF LinkOnly(h)
       THEN /\ err' = "none"
            /\ stops' = [g \in Handlers |-> 0]
            /\ UNCHANGED <<reg, item_handlers, stopped, message_id>>
       ELSE IF msg = NoMessage
       THEN /\ err' = "TypeError"
            /\ stops' = [g \in Handlers |-> 0]
            /\ UNCHANGED <<reg, item_handlers, stopped, message_id>>
       ELSE /\ message_id' = [message_id EXCEPT ![h] = msg]
            /\ \E st \in {Subscribe(Registry, h, <<msg>>)} : SetRegistry(st)
    /\ last' = [op |-> "start", h |-> h, keys |-> {msg}, owners |-> {}]
    /\ UNCHANGED <<added, plain, timeout, app, viewvars, dispvars>>

\* get_view: the handler it returns, NoHandler for None.  Every handler of
\* the model is a View.
GetView(st, msg) == Get(st, msg)

GetViewOp(msg) ==
    /\ err' = IF app THEN "none" ELSE "RuntimeError"
    /\ stops' = [g \in Handlers |-> 0]
    /\ last' = [op |-> "get_view",
                h |-> IF app THEN GetView(Registry, msg) ELSE NoHandler,
                keys |-> {msg}, owners |-> {}]
    /\ UNCHANGED <<reg, item_handlers, stopped, added, plain, lifevars,
                   viewvars, dispvars>>

\* miru.load() sets View._app.
LoadOp ==
    /\ ~app
    /\ app' = TRUE
    /\ UNCHANGED <<regvars, timeout, message_id, viewvars, dispvars>>

\* The views of the lifecycle runs: the first has link buttons only, or a
\* link button and an item with a callback; the others have two items with
\* callbacks and are persistent, or have a timeout, or have one item that is
\* not persistent.
Built(items, t) == [children |-> items, timeout |-> t]

Builds(h) ==
    IF h = 1
    THEN {Built(<<LinkItem, LinkItem>>, DefaultTimeout),
          Built(<<LinkItem, Item(Cid(1))>>, DefaultTimeout)}
    ELSE {Built(<<Item(Cid(1)), Item(Cid(2))>>, NoTimeout),
          Built(<<Item(Cid(1)), Item(Cid(2))>>, DefaultTimeout),
          Built(<<Item(Cid(1)), [Item(Cid(2)) EXCEPT !.persistent = FALSE]>>,
                NoTimeout)}

\* The registries of the lifecycle runs: empty, or with the last handler
\* registered by add under the message or under a custom id.
StartSetups ==
    {EmptyRegistry,
     Add(EmptyRegistry, NumHandlers, <<Mid(1)>>),
     Add(EmptyRegistry, NumHandlers, <<Cid(1)>>)}

InitStart ==
    /\ \E b \in [Handlers -> UNION {Builds(h) : h \in Handlers}] :
          /\ \A h \in Handlers : b[h] \in Builds(h)
          /\ children = [h \in Handlers |-> b[h].children]
          /\ timeout = [h \in Handlers |-> b[h].timeout]
    /\ message_id = [h \in Handlers |-> NoMessage]
    /\ app = FALSE
    /\ autodefer = [h \in Handlers |-> TRUE]
    /\ last_context = [h \in Handlers |-> NoContext]
    /\ inputted = [h \in Handlers |-> FALSE]
    /\ clock = 0
    /\ disp = [d \in Slots |-> IdleDispatch]
    /\ tasks = [d \in Slots |-> <<>>]
    /\ issued = [d \in Slots |-> FALSE]
    /\ replies = [d \in Slots |-> 0]
    /\ waiters = [w \in Waiters |-> IdleWaiter]
    /\ inbound = 0
    /\ \E st \in StartSetups :
          /\ reg = st.reg
          /\ item_handlers = st.item_handlers
          /\ stopped = st.stopped
    /\ stops = EmptyRegistry.stops
    /\ err = "none"
    /\ last = [op |-> "init", h |-> NoHandler, keys |-> {}, owners |-> {}]
    /\ added = {}
    /\ plain = TRUE

NextStart ==
    \/ \E h \in Handlers, msg \in MessageIds \cup {NoMessage} : StartOp(h, msg)
    \/ \E h \in Handlers : StartListenerOp(h)
    \/ \E msg \in MessageIds : GetViewOp(msg)
    \/ LoadOp
    \/ \E h \in Handlers : StopOp(h)

SpecStart == InitStart /\ [][NextStart]_vars

\* ----------------------------------------------------------- dispatcher
\* on_inter, lines 34-45: the handler the event is delegated to, or NoHandler.
Accepted(ev) == ev.kind \in {"component", "modal"}

Resolve(st, ev) ==
    IF ~Accepted(ev) THEN NoHandler
    ELSE IF ev.message = NoMessage THEN NoHandler
    ELSE IF Get(st, ev.custom_id) # NoHandler THEN Get(st, ev.custom_id)
    ELSE Get(st, ev.message)

\* [item for item in self.children if item.custom_id == interaction.custom_id],
\* as the positions of the matching items.
RECURSIVE MatchFrom(_, _, _)
MatchFrom(items, cid, i) ==
    IF i > Len(items) THEN <<>>
    ELSE (IF items[i].custom_id = cid THEN <<i>> ELSE <<>>)
         \o MatchFrom(items, cid, i + 1)

MatchItems(h, ev) == MatchFrom(children[h], ev.custom_id, 1)

ProcessInteractions_Eager(d, h, ev) ==
    LET items == IF ev.kind = "component" THEN MatchFrom(children[h], ev.custom_id, 1)
                 ELSE <<>>
    IN  /\ last_context' = [last_context EXCEPT ![h] = d]
        /\ disp' = [disp EXCEPT ![d] =
               [pc |-> IF Len(items) > 0 THEN "check" ELSE "done", ev |-> ev,
                h |-> h, items |-> items, outcome |-> "delegated"]]

ProcessInteractions_KeepFirst(d, h, ev) ==
    LET items == IF ev.kind = "component" THEN MatchFrom(children[h], ev.custom_id, 1)
                 ELSE <<>>
    IN  /\ last_context' = IF Len(items) > 0 /\ last_context[h] = NoContext
                           THEN [last_context EXCEPT ![h] = d]
                           ELSE last_context
        /\ disp' = [disp EXCEPT ![d] =
               [pc |-> IF Len(items) > 0 THEN "check" ELSE "done", ev |-> ev,
                h |-> h, items |-> items, outcome |-> "delegated"]]

\* View._process_interactions up to its await of view_check: only a component
\* interaction with at least one matching item builds a context, stores it as
\* the last context and goes on to the check.
Matches(h, ev) == IF ev.kind = "component" THEN MatchItems(h, ev) ELSE <<>>

ProcessInteractions(d, h, ev) ==
    LET items == Matches(h, ev)
    IN  IF Len(items) > 0
        THEN /\ last_context' = [last_context EXCEPT ![h] = d]
             /\ disp' = [disp EXCEPT ![d] =
                    [pc |-> "check", ev |-> ev, h |-> h, items |-> items,
                     outcome |-> "delegated"]]
        ELSE /\ last_context' = last_context
             /\ disp' = [disp EXCEPT ![d] =
                    [pc |-> "done", ev |-> ev, h |-> h, items |-> <<>>,
                     outcome |-> "delegated"]]

\* History: the waiters on handler h note that event d was delegated to it.
Noted(h, d) ==
    [w \in Waiters |->
        IF waiters[w].pc = "waiting" /\ waiters[w].h = h
        THEN [waiters[w] EXCEPT !.events = @ \cup {d}]
        ELSE waiters[w]]

\* on_inter for one inbound event.
OnInter(d, ev) ==
    /\ disp[d].pc = "idle"
    /\ d <= inbound
    /\ \A e \in Slots : e < d => disp[e].pc # "idle"
    /\ LET h == Resolve(Registry, ev)
       IN  IF h = NoHandler
           THEN /\ disp' = [disp EXCEPT ![d] =
                       [pc |-> "done", ev |-> ev, h |-> NoHandler, items |-> <<>>,
                        outcome |-> IF Accepted(ev) THEN "dropped" ELSE "ignored"]]
                /\ last_context' = last_context
           ELSE ProcessInteractions(d, h, ev)
    /\ waiters' = Noted(Resolve(Registry, ev), d)
    /\ UNCHANGED <<regvars, lifevars, children, autodefer, inputted, clock,
                   tasks, issued, replies, inbound>>

CheckDone_Ignore(d, passed) ==
    /\ disp[d].pc = "check"
    /\ disp' = [disp EXCEPT ![d].pc = "done",
                            ![d].outcome = IF passed THEN "spawned" ELSE "refused"]
    /\ tasks' = [tasks EXCEPT ![d] =
                    [i \in 1..Len(disp[d].items) |->
                        [NewTask EXCEPT !.item = disp[d].items[i],
                                        !.context = d,
                                        !.current = last_context[disp[d].h]]]]
    /\ UNCHANGED <<reg, item_handlers, stopped, stops, err, last, added, plain,
                   timeout, message_id, app, children, autodefer, last_context,
                   inputted, clock, issued, replies, inbound, waiters>>

CheckDone_LastContext(d, passed) ==
    /\ disp[d].pc = "check"
    /\ disp' = [disp EXCEPT ![d].pc = "done",
                            ![d].outcome = IF passed THEN "spawned" ELSE "refused"]
    /\ tasks' = [tasks EXCEPT ![d] =
                    IF passed
                    THEN [i \in 1..Len(disp[d].items) |->
                             [NewTask EXCEPT !.item = disp[d].items[i],
                                             !.context = last_context[disp[d].h],
                                             !.current = last_context[disp[d].h]]]
                    ELSE <<>>]
    /\ UNCHANGED <<regvars, lifevars, viewvars, clock, issued, replies, inbound, waiters>>

\* view_check returns: a false result ends the processing; otherwise one task
\* per matched item is created with the context of this event, the local
\* variable context of line 280.
CheckDone(d, passed) ==
    /\ disp[d].pc = "check"
    /\ disp' = [disp EXCEPT ![d].pc = "done",
                            ![d].outcome = IF passed THEN "spawned" ELSE "refused"]
    /\ tasks' = [tasks EXCEPT ![d] =
                    IF passed
                    THEN [i \in 1..Len(disp[d].items) |->
                             [NewTask EXCEPT !.item = disp[d].items[i],
                                             !.context = d,
                                             !.current = last_context[disp[d].h]]]
                    ELSE <<>>]
    /\ UNCHANGED <<regvars, lifevars, viewvars, clock, issued, replies, inbound, waiters>>

\* ------------------------------------------------------- callback tasks
TaskIds == UNION {{<<d, i>> : i \in DOMAIN tasks[d]} : d \in Slots}

SetTask(d, i, t) == tasks' = [tasks EXCEPT ![d][i] = t]

OnError_Silent(t, what) == [t EXCEPT !.pc = "done", !.error = what]

\* Lines 265-266: the exception is caught and View.on_error is awaited with
\* the error and with the item and the context the task was created with;
\* the task ends.
OnError(t, what) ==
    [t EXCEPT !.pc = "done", !.error = what,
              !.hook = Append(@, [error |-> what, item |-> t.item,
                                  context |-> t.context])]

\* self._inputted.set(): every wait() pending on the Event is resumed.
Woken(h, id) ==
    [w \in Waiters |->
        IF waiters[w].pc = "waiting" /\ waiters[w].h = h
        THEN [waiters[w] EXCEPT !.pc = "returned", !.by = id]
        ELSE waiters[w]]

TaskStart_NoClear(d, i, ok) ==
    /\ <<d, i>> \in TaskIds
    /\ tasks[d][i].pc = "spawned"
    /\ inputted' = [inputted EXCEPT ![disp[d].h] = TRUE]
    /\ waiters' = Woken(disp[d].h, <<d, i>>)
    /\ SetTask(d, i, IF ok THEN [tasks[d][i] EXCEPT !.pc = "callback",
                                                    !.now = clock]
                     ELSE OnError([tasks[d][i] EXCEPT !.now = clock], "refresh"))
    /\ UNCHANGED <<regvars, lifevars, children, autodefer, last_context, clock,
                   disp, issued, replies, inbound>>

TaskStart_NoSet(d, i, ok) ==
    /\ <<d, i>> \in TaskIds
    /\ tasks[d][i].pc = "spawned"
    /\ inputted' = [inputted EXCEPT ![disp[d].h] = FALSE]
    /\ waiters' = waiters
    /\ SetTask(d, i, IF ok THEN [tasks[d][i] EXCEPT !.pc = "callback",
                                                    !.now = clock]
                     ELSE OnError([tasks[d][i] EXCEPT !.now = clock], "refresh"))
    /\ UNCHANGED <<regvars, lifevars, children, autodefer, last_context, clock,
                   disp, issued, replies, inbound>>

TaskStart_UnlessStopped(d, i, ok) ==
    /\ <<d, i>> \in TaskIds
    /\ tasks[d][i].pc = "spawned"
    /\ ~stopped[disp[d].h]
    /\ inputted' = [inputted EXCEPT ![disp[d].h] = FALSE]
    /\ waiters' = Woken(disp[d].h, <<d, i>>)
    /\ SetTask(d, i, IF ok THEN [tasks[d][i] EXCEPT !.pc = "callback",
                                                    !.now = clock]
                     ELSE OnError([tasks[d][i] EXCEPT !.now = clock], "refresh"))
    /\ UNCHANGED <<regvars, lifevars, children, autodefer, last_context, clock,
                   disp, issued, replies, inbound>>

\* _handle_callback, lines 254-258: the start time is taken, the input signal
\* is set, which resumes the waiters, and cleared at once, and the item is
\* refreshed from the interaction.
TaskStart(d, i, ok) ==
    /\ <<d, i>> \in TaskIds
    /\ tasks[d][i].pc = "spawned"
    /\ inputted' = [inputted EXCEPT ![disp[d].h] = FALSE]
    /\ waiters' = Woken(disp[d].h, <<d, i>>)
    /\ SetTask(d, i, IF ok THEN [tasks[d][i] EXCEPT !.pc = "callback",
                                                    !.now = clock]
                     ELSE OnError([tasks[d][i] EXCEPT !.now = clock], "refresh"))
    /\ UNCHANGED <<regvars, lifevars, children, autodefer, last_context, clock,
                   disp, issued, replies, inbound>>

\* The callback asks for an initial reply: the issued flag is read and, when
\* it is clear, the reply is sent, which suspends the task.
CallbackReply(d, i) ==
    /\ <<d, i>> \in TaskIds
    /\ tasks[d][i].pc = "callback"
    /\ ~tasks[d][i].replied
    /\ ~issued[d]
    /\ SetTask(d, i, [tasks[d][i] EXCEPT !.pc = "replying"])
    /\ UNCHANGED <<regvars, lifevars, viewvars, clock, disp, issued, replies, inbound, waiters>>

\* The reply has been issued: the interaction records it.
ReplySent(d, i) ==
    /\ <<d, i>> \in TaskIds
    /\ tasks[d][i].pc = "replying"
    /\ issued' = [issued EXCEPT ![d] = TRUE]
    /\ replies' = [replies EXCEPT ![d] = @ + 1]
    /\ SetTask(d, i, [tasks[d][i] EXCEPT !.pc = "callback", !.replied = TRUE])
    /\ UNCHANGED <<regvars, lifevars, viewvars, clock, disp, inbound, waiters>>

ShouldDefer_Strict(flag, auto, elapsed) ==
    ~flag /\ auto /\ elapsed < AutodeferWindow

\* Lines 261-262: whether the implicit defer is issued.
ShouldDefer(flag, auto, elapsed) ==
    ~flag /\ auto /\ elapsed <= AutodeferWindow

\* item.callback returns; the autodefer condition is evaluated at once.
CallbackReturn(d, i) ==
    /\ <<d, i>> \in TaskIds
    /\ tasks[d][i].pc = "callback"
    /\ LET t == tasks[d][i]
           el == clock - t.now
           go == ShouldDefer(issued[d], autodefer[disp[d].h], el)
       IN  SetTask(d, i, [t EXCEPT !.pc = IF go THEN "deferring" ELSE "done",
                                   !.checked = TRUE, !.seen = replies[d],
                                   !.elapsed = el])
    /\ UNCHANGED <<regvars, lifevars, viewvars, clock, disp, issued, replies, inbound, waiters>>

\* item.callback raises.
CallbackRaise(d, i) ==
    /\ <<d, i>> \in TaskIds
    /\ tasks[d][i].pc = "callback"
    /\ SetTask(d, i, OnError(tasks[d][i], "callback"))
    /\ UNCHANGED <<regvars, lifevars, viewvars, clock, disp, issued, replies, inbound, waiters>>

\* The callback calls stop() on its own handler and goes on; an exception
\* raised by that stop() is raised inside the callback.
CallbackStop(d, i) ==
    /\ <<d, i>> \in TaskIds
    /\ tasks[d][i].pc = "callback"
    /\ \E st \in {HandlerStop(Registry, disp[d].h)} :
          /\ SetRegistry(st)
          /\ SetTask(d, i, IF st.err # "none"
                           THEN OnError(tasks[d][i], "callback")
                           ELSE tasks[d][i])
    /\ last' = [op |-> "self_stop", h |-> disp[d].h, keys |-> {}, owners |-> {}]
    /\ UNCHANGED <<added, plain, lifevars, viewvars, clock, disp, issued, replies, inbound, waiters>>

\* context.defer() completes: the deferred reply has been issued.
DeferSent(d, i) ==
    /\ <<d, i>> \in TaskIds
    /\ tasks[d][i].pc = "deferring"
    /\ issued' = [issued EXCEPT ![d] = TRUE]
    /\ replies' = [replies EXCEPT ![d] = @ + 1]
    /\ SetTask(d, i, [tasks[d][i] EXCEPT !.pc = "done", !.deferred = TRUE])
    /\ UNCHANGED <<regvars, lifevars, viewvars, clock, disp, inbound, waiters>>

\* context.defer() raises.
DeferRaise(d, i) ==
    /\ <<d, i>> \in TaskIds
    /\ tasks[d][i].pc = "deferring"
    /\ SetTask(d, i, OnError(tasks[d][i], "defer"))
    /\ UNCHANGED <<regvars, lifevars, viewvars, clock, disp, issued, replies, inbound, waiters>>

\* A second passes while a callback is running or a wait with a timeout is
\* pending; a timeout that is due is raised before more time passes.
Tick ==
    /\ clock < MaxClock
    /\ \/ \E id \in TaskIds : tasks[id[1]][id[2]].pc \in {"callback", "replying"}
       \/ \E w \in Waiters : waiters[w].pc = "waiting" /\ waiters[w].limit # NoTimeout
    /\ \A w \in Waiters :
          (waiters[w].pc = "waiting" /\ waiters[w].limit # NoTimeout) =>
              clock - waiters[w].since < waiters[w].limit
    /\ clock' = clock + 1
    /\ UNCHANGED <<regvars, lifevars, viewvars, disp, tasks, issued, replies, inbound, waiters>>

\* View.wait_for_input(timeout): asyncio.wait_for(self._inputted.wait(),
\* timeout).  Event.wait() returns at once when the Event is set and suspends
\* otherwise.
Started(h) ==
    {id \in TaskIds : disp[id[1]].h = h /\ tasks[id[1]][id[2]].pc # "spawned"}

WaitForInput(w, h, limit) ==
    /\ waiters[w].pc = "idle"
    /\ waiters' = [waiters EXCEPT ![w] =
           [pc |-> IF inputted[h] THEN "returned" ELSE "waiting", h |-> h,
            since |-> clock, limit |-> limit, by |-> NoTask,
            before |-> Started(h), events |-> {}]]
    /\ UNCHANGED <<regvars, lifevars, viewvars, clock, disp, tasks, issued,
                   replies, inbound>>

\* The timeout of asyncio.wait_for elapses: the wait is cancelled and
\* TimeoutError is raised in the waiting task.
WaitTimeout(w) ==
    /\ waiters[w].pc = "waiting"
    /\ waiters[w].limit # NoTimeout
    /\ clock - waiters[w].since >= waiters[w].limit
    /\ waiters' = [waiters EXCEPT ![w].pc = "timeout"]
    /\ UNCHANGED <<regvars, lifevars, viewvars, clock, disp, tasks, issued,
                   replies, inbound>>

\* The registries the dispatcher is run against: built by add from the empty
\* registry.
RegSetups ==
    {EmptyRegistry,
     Add(EmptyRegistry, 1, <<Mid(1)>>),
     Add(EmptyRegistry, 2, <<Cid(1), Cid(2)>>),
     Add(Add(EmptyRegistry, 1, <<Mid(1)>>), 2, <<Cid(1), Cid(2)>>)}

Init ==
    /\ InitViews
    /\ inbound = 1
    /\ autodefer \in [Handlers -> BOOLEAN]
    /\ \E st \in RegSetups :
          /\ reg = st.reg
          /\ item_handlers = st.item_handlers
          /\ stopped = st.stopped
    /\ stops = EmptyRegistry.stops
    /\ err = "none"
    /\ last = [op |-> "init", h |-> NoHandler, keys |-> {}, owners |-> {}]
    /\ added = {}
    /\ plain = TRUE

Next ==
    \/ \E h \in Handlers : StopOp(h)
    \/ \E d \in Slots, ev \in Events : OnInter(d, ev)
    \/ \E d \in Slots, passed \in BOOLEAN : CheckDone(d, passed)
    \/ \E d \in Slots, ok \in BOOLEAN : \E i \in DOMAIN tasks[d] : TaskStart(d, i, ok)
    \/ \E d \in Slots : \E i \in DOMAIN tasks[d] : CallbackReturn(d, i)
    \/ \E d \in Slots : \E i \in DOMAIN tasks[d] : DeferSent(d, i)
    \/ \E d \in Slots : \E i \in DOMAIN tasks[d] : DeferRaise(d, i)
    \/ \E d \in Slots : \E i \in DOMAIN tasks[d] : CallbackReply(d, i)
    \/ \E d \in Slots : \E i \in DOMAIN tasks[d] : ReplySent(d, i)
    \/ \E d \in Slots : \E i \in DOMAIN tasks[d] : CallbackRaise(d, i)
    \/ Tick

Spec == Init /\ [][Next]_vars

SpecReg == InitReg /\ [][NextReg]_vars

\* Runs of n inbound events against a registry with at least one handler.
\* The processing of two events may interleave: on_inter suspends at its
\* await of view_check, and the callback tasks run on their own.  The
\* callbacks of these runs issue no reply of their own.
InitRuns(n) ==
    /\ InitViews
    /\ inbound = n
    /\ autodefer = [h \in Handlers |-> TRUE]
    /\ \E st \in RegSetups \ {EmptyRegistry} :
          /\ reg = st.reg
          /\ item_handlers = st.item_handlers
          /\ stopped = st.stopped
    /\ stops = EmptyRegistry.stops
    /\ err = "none"
    /\ last = [op |-> "init", h |-> NoHandler, keys |-> {}, owners |-> {}]
    /\ added = {}
    /\ plain = TRUE

InitPair == InitRuns(2)

NextPair ==
    \/ \E d \in Slots, ev \in Events : OnInter(d, ev)
    \/ \E d \in Slots, passed \in BOOLEAN : CheckDone(d, passed)
    \/ \E d \in Slots, ok \in BOOLEAN : \E i \in DOMAIN tasks[d] : TaskStart(d, i, ok)
    \/ \E d \in Slots : \E i \in DOMAIN tasks[d] : CallbackReturn(d, i)
    \/ \E d \in Slots : \E i \in DOMAIN tasks[d] : CallbackRaise(d, i)
    \/ \E d \in Slots : \E i \in DOMAIN tasks[d] : DeferSent(d, i)
    \/ \E d \in Slots : \E i \in DOMAIN tasks[d] : DeferRaise(d, i)

SpecPair == InitPair /\ [][NextPair]_vars

\* One component event against a registry that holds the first handler under
\* the message, with application tasks waiting for input on the handlers,
\* with no timeout or with one of 2 seconds.  The second waiter begins its
\* wait after the first; the callbacks return and the deferred replies go
\* through.
WaitLimits == {NoTimeout, 2}
WaitHandlers == {1}

InitWait ==
    /\ InitRuns(1)
    /\ reg = Add(EmptyRegistry, 1, <<Mid(1)>>).reg

NextWait ==
    \/ \E d \in Slots, ev \in Events : ev.kind = "component" /\ OnInter(d, ev)
    \/ \E d \in Slots, passed \in BOOLEAN : CheckDone(d, passed)
    \/ \E d \in Slots : \E i \in DOMAIN tasks[d] : TaskStart(d, i, TRUE)
    \/ \E d \in Slots : \E i \in DOMAIN tasks[d] : CallbackReturn(d, i)
    \/ \E d \in Slots : \E i \in DOMAIN tasks[d] : DeferSent(d, i)
    \/ \E w \in Waiters, h \in WaitHandlers, limit \in WaitLimits :
          /\ \A v \in Waiters : v < w => waiters[v].pc # "idle"
          /\ WaitForInput(w, h, limit)
    \/ \E w \in Waiters : WaitTimeout(w)
    \/ Tick

SpecWait == InitWait /\ [][NextWait]_vars

\* One event, with handlers being stopped, from outside or by their own
\* callbacks, while tasks are in flight.  The event loop runs every task that
\* is ready, and the callback and the deferred reply are taken to end: a
\* created task starts, a running callback returns unless it raises, and a
\* deferred reply being sent completes unless it raises.
InitLive == InitRuns(1)

NextLive ==
    \/ NextPair
    \/ \E h \in Handlers : StopOp(h)
    \/ \E d \in Slots : \E i \in DOMAIN tasks[d] : CallbackStop(d, i)

TaskSlots == 1..2

Scheduling ==
    \A d \in Slots, i \in TaskSlots :
        /\ WF_vars(\E ok \in BOOLEAN : TaskStart(d, i, ok))
        /\ WF_vars(CallbackReturn(d, i))
        /\ WF_vars(DeferSent(d, i))

SpecLive == InitLive /\ [][NextLive]_vars /\ Scheduling

\* ------------------------------------------------------------ registry claims
Recorded(h) == IF item_handlers[h].has THEN Range(item_handlers[h].ids) ELSE {}

\* C1: in a sequence of add calls by distinct handlers, each passing pairwise
\* different keys, after each add every key of the call resolves to the
\* caller, and the handler that owned the key before the call has had stop()
\* called on it exactly once by that call and is marked terminated.
C1_LastAddWins ==
    (last.op = "add" /\ plain) =>
        /\ \A k \in last.keys : reg[k] = last.h
        /\ \A o \in last.owners : stops[o] = 1 /\ stopped[o]

C1_Witness ==
    /\ plain /\ last.op = "add"
    /\ \E o \in last.owners : o # last.h /\ stops[o] = 1
    /\ \E k \in last.keys : reg[k] = last.h

\* C2: after remove(h) has returned, no key resolves to h.
C2_RemovePurges ==
    (last.op = "pop" /\ err = "none") => \A k \in Keys : reg[k] # last.h

\* C3: remove(h) reports no error, whether or not h is registered.
C3_RemoveIdempotent == last.op = "pop" => err = "none"

\* C4: no key is in the key sets recorded for two different handlers, and a
\* key recorded for a handler resolves to that handler.
C4_SingleOwner ==
    \A h1 \in Handlers, k \in Keys :
        k \in Recorded(h1) =>
            /\ reg[k] = h1
            /\ \A h2 \in Handlers \ {h1} : k \notin Recorded(h2)

C4_Witness ==
    /\ last.op = "add" /\ err = "none"
    /\ \E o \in Handlers \ {last.h} : stops[o] = 1 /\ ~item_handlers[o].has
    /\ Cardinality(Recorded(last.h)) = 2

\* C5: in the state right after h was stopped, by an explicit stop or by
\* another handler's add that returned, no key resolves to h.
C5_StopPurges ==
    \A h \in Handlers :
        (stops[h] > 0 /\ err = "none" /\ ~(last.op = "add" /\ last.h = h)) =>
            \A k \in Keys : reg[k] # h


\* ---------------------------------------------------------- dispatch claims
\* The routing the dispatcher is specified to do: the owner of the component
\* identifier when registered, else the owner of the message identifier.
Route(ev) ==
    IF ~Accepted(ev) THEN NoHandler
    ELSE IF reg[ev.custom_id] # NoHandler THEN reg[ev.custom_id]
    ELSE IF ev.message # NoMessage /\ reg[ev.message] # NoHandler
         THEN reg[ev.message]
    ELSE NoHandler

\* C6: every event is delegated to the handler registered under its
\* component identifier, else to the one registered under its message
\* identifier, else to none; events of other kinds are delegated to none.
C6_Routing ==
    [][\A d \in Slots, ev \in Events :
          OnInter(d, ev) => disp'[d].h = Route(ev)]_vars

\* C7: an event delegated to a handler none of whose items has the event's
\* identifier creates no task, never reaches the check, and leaves the last
\* context, the input signal, the items and the registry as they were.
NoItemMatches(h, ev) ==
    \A i \in DOMAIN children[h] : children[h][i].custom_id # ev.custom_id

C7_NoMatchNoEffect ==
    [][\A d \in Slots, ev \in Events :
          (OnInter(d, ev) /\ disp'[d].h # NoHandler
                          /\ NoItemMatches(disp'[d].h, ev)) =>
              /\ disp'[d].pc = "done" /\ disp'[d].items = <<>>
              /\ tasks' = tasks /\ tasks'[d] = <<>>
              /\ UNCHANGED <<last_context, inputted, children, reg,
                             item_handlers, stopped>>]_vars

C7_Witness ==
    \E d \in Slots :
        /\ disp[d].pc = "done" /\ disp[d].outcome = "delegated"
        /\ disp[d].ev.kind = "component"
        /\ NoItemMatches(disp[d].h, disp[d].ev)
        /\ last_context[disp[d].h] = NoContext

\* C8: after the permission check returned false for an event, no callback
\* task exists for it and no reply has been issued on its interaction.
C8_RefusedNoEffect ==
    \A d \in Slots :
        disp[d].outcome = "refused" =>
            tasks[d] = <<>> /\ replies[d] = 0 /\ ~issued[d]

C8_Witness ==
    \E d \in Slots :
        /\ disp[d].outcome = "refused"
        /\ Len(disp[d].items) = 2
        /\ last_context[disp[d].h] = d

\* C9: a task whose callback returned without error goes on to the implicit
\* deferred reply exactly when no reply had been issued on the interaction,
\* the handler's autodefer is on and at most 3 seconds had passed since the
\* task started; a callback that took longer and did not reply leaves the
\* task without any reply of its own.
DeferAttempted(t) == t.pc = "deferring" \/ t.deferred \/ t.error = "defer"

C9_AutodeferIff ==
    \A d \in Slots : \A i \in DOMAIN tasks[d] :
        LET t == tasks[d][i]
        IN  t.checked =>
              /\ DeferAttempted(t) <=>
                    (t.seen = 0 /\ autodefer[disp[d].h] /\ t.elapsed <= 3)
              /\ (t.elapsed > 3 /\ ~t.replied) => (t.pc = "done" /\ ~t.deferred)

C9_Witness ==
    \E d \in Slots :
        /\ Len(tasks[d]) = 1
        /\ autodefer[disp[d].h]
        /\ tasks[d][1].pc = "done" /\ tasks[d][1].checked
        /\ tasks[d][1].elapsed > 3
        /\ replies[d] = 0

\* C10: at most one initial reply is issued on an interaction.
C10_SingleReply == \A d \in Slots : replies[d] <= 1

\* --------------------------------------------------------- lifecycle claims
AllLinks(h) == \A i \in DOMAIN children[h] : children[h][i].url

Persistent(h) ==
    /\ timeout[h] = NoTimeout
    /\ \A i \in DOMAIN children[h] : children[h][i].persistent

\* C14: start_listener on a handler that is not persistent raises an error
\* and leaves the registry as it was; on a persistent handler it returns
\* without an error and afterwards each item's custom id resolves to the
\* handler.
C14_StartListener ==
    [][\A h \in Handlers :
          StartListenerOp(h) =>
              IF Persistent(h)
              THEN /\ err' = "none"
                   /\ \A i \in DOMAIN children[h] :
                          reg'[children[h][i].custom_id] = h
              ELSE /\ err' = "ValueError"
                   /\ UNCHANGED <<reg, item_handlers, stopped>>]_vars

\* C16: after start(message) on a handler with an item that is not a link
\* button, the handler is bound to the message's id, the id resolves to the
\* handler and the call has raised nothing; a bound handler that has not
\* been stopped is the one its message id resolves to; get_view raises
\* RuntimeError while miru.load() has not run.
C16_StartBinds ==
    /\ (last.op = "start" /\ ~AllLinks(last.h) /\ last.keys \subseteq MessageIds) =>
           /\ err = "none"
           /\ \A m \in last.keys : message_id[last.h] = m /\ reg[m] = last.h
    /\ \A h \in Handlers :
           (message_id[h] # NoMessage /\ ~stopped[h]) => reg[message_id[h]] = h
    /\ (last.op = "get_view" /\ ~app) => err = "RuntimeError"

\* C20: no key of the registry resolves to a handler marked terminated.
C20_RegisteredLive ==
    \A k \in Keys : reg[k] # NoHandler => ~stopped[reg[k]]

\* ------------------------------------------------------ task claims
\* The on_error call a failed task must have made: its error, the item and
\* the context of the task.
HookCall(d, i) ==
    [error |-> tasks[d][i].error, item |-> disp[d].items[i], context |-> d]

HookedOnce ==
    \A d \in Slots : \A i \in DOMAIN tasks[d] :
        IF tasks[d][i].error = "none"
        THEN tasks[d][i].hook = <<>>
        ELSE tasks[d][i].hook = <<HookCall(d, i)>> /\ tasks[d][i].pc = "done"

\* A step in which a task's refresh, callback or implicit defer raises.
Raises(d, i) ==
    /\ i \in DOMAIN tasks[d]
    /\ tasks[d][i].error = "none"
    /\ tasks'[d][i].error # "none"

\* C11: a task whose refresh, callback or implicit defer raised has called
\* on_error exactly once, with that error, its item and its context, and has
\* ended; a task that did not fail never calls it.  The step in which a task
\* fails changes no other task and no dispatch, and leaves the registry and
\* the handlers' terminated marks as they were, so the handler stays
\* registered and live.
C11_ErrorContained ==
    /\ []HookedOnce
    /\ [][\A d \in Slots, i \in TaskSlots :
             Raises(d, i) =>
                /\ \A e \in Slots : \A j \in DOMAIN tasks[e] :
                       <<e, j>> # <<d, i>> => tasks'[e][j] = tasks[e][j]
                /\ \A e \in Slots : DOMAIN tasks'[e] = DOMAIN tasks[e]
                /\ UNCHANGED <<disp, reg, item_handlers, stopped, last_context>>]_vars

\* A callback raised for the first event's task; its sibling went on and
\* finished, and a second event delegated to the same handler has its
\* callback running.
C11_Witness ==
    /\ Len(tasks[1]) = 2 /\ Len(tasks[2]) > 0
    /\ tasks[1][1].error = "callback"
    /\ tasks[1][2].pc = "done" /\ tasks[1][2].error = "none"
    /\ disp[2].h = disp[1].h
    /\ tasks[2][1].pc = "callback"
    /\ reg[Mid(1)] = disp[1].h /\ ~stopped[disp[1].h]

\* C12: every callback task that was created finishes, by ending its
\* callback-then-autodefer sequence or through the error hook, whether or not
\* its handler is stopped meanwhile, by anyone or by the task's own callback;
\* and on_inter has returned as soon as the tasks of its event are created,
\* whatever their progress.
C12_TasksFinish ==
    /\ \A d \in Slots, i \in TaskSlots :
           (i \in DOMAIN tasks[d]) ~>
               (i \in DOMAIN tasks[d] /\ tasks[d][i].pc = "done")
    /\ [](\A d \in Slots : disp[d].outcome = "spawned" => disp[d].pc = "done")

\* A callback stopped its own handler, and then both tasks of the event
\* finished, this one with its deferred reply.
C12_Witness ==
    \E d \in Slots :
        /\ Len(tasks[d]) = 2
        /\ last.op = "self_stop" /\ last.h = disp[d].h /\ err = "none"
        /\ stopped[disp[d].h]
        /\ tasks[d][1].pc = "done" /\ tasks[d][1].deferred
        /\ tasks[d][2].pc = "done" /\ tasks[d][2].error = "none"

\* The items of the handler an event was delegated to that carry the
\* event's custom id, as positions.
Matching(d) ==
    IF disp[d].h = NoHandler \/ disp[d].ev.kind # "component" THEN {}
    ELSE {i \in DOMAIN children[disp[d].h] :
             children[disp[d].h][i].custom_id = disp[d].ev.custom_id}

\* C17: when callback tasks exist for an event, the matching for that event
\* is complete and its check has returned true; there is one task for each
\* matching item, and each task was given the context built for that event,
\* whatever the handler's last context was when the task was created.
C17_OwnContext ==
    \A d \in Slots :
        tasks[d] # <<>> =>
            /\ disp[d].pc = "done" /\ disp[d].outcome = "spawned"
            /\ Range(disp[d].items) = Matching(d)
            /\ Len(tasks[d]) = Cardinality(Matching(d))
            /\ \A i \in DOMAIN tasks[d] :
                   /\ tasks[d][i].context = d
                   /\ tasks[d][i].item = disp[d].items[i]

\* The second event overwrote the handler's last context while the first was
\* at its check; the tasks of the first were created afterwards.
C17_Witness ==
    /\ Len(tasks[1]) = 2
    /\ disp[2].h = disp[1].h
    /\ tasks[1][1].current = 2 /\ tasks[1][1].context = 1
    /\ tasks[1][2].current = 2 /\ tasks[1][2].context = 1

\* The events that stored a context on handler h: those delegated to it with
\* a matching item.  The second event is taken up after the first.
Writers(h) ==
    {d \in Slots : disp[d].pc # "idle" /\ disp[d].h = h /\ Matching(d) # {}}

LastWriter(h) ==
    IF Writers(h) = {} THEN NoContext
    ELSE CHOOSE d \in Writers(h) : \A e \in Writers(h) : e <= d

\* C18: a handler's last context is the context of the latest event that was
\* delegated to it with a matching item, from the moment that event reaches
\* the check, whatever the check returns and whatever the tasks of earlier
\* events do afterwards; with no such event it is None.
C18_LastWriteWins ==
    \A h \in Handlers : last_context[h] = LastWriter(h)

\* Both events matched on one handler; the check of the second returned
\* false after the tasks of the first were running.
C18_Witness ==
    /\ disp[1].h = disp[2].h /\ disp[1].h # NoHandler
    /\ disp[1].outcome = "spawned" /\ disp[2].outcome = "refused"
    /\ Len(tasks[1]) > 0 /\ tasks[1][1].pc = "done"
    /\ tasks[1][1].current = 1
    /\ last_context[disp[1].h] = 2

\* ------------------------------------------------------ wait_for_input claims
\* A step in which callback task i of event d starts: its first statements
\* (lines 254-256) run.
Starts(d, i) ==
    /\ i \in DOMAIN tasks[d]
    /\ tasks[d][i].pc = "spawned"
    /\ tasks'[d][i].pc # "spawned"

TaskOf(id) == tasks[id[1]][id[2]]

WaitOutcomes ==
    \A w \in Waiters :
        LET x == waiters[w]
        IN  /\ x.pc = "returned" =>
                  /\ x.by \in TaskIds \ x.before
                  /\ disp[x.by[1]].h = x.h
                  /\ TaskOf(x.by).now >= x.since
                  /\ x.limit # NoTimeout => TaskOf(x.by).now <= x.since + x.limit
            /\ x.pc = "timeout" =>
                  /\ x.limit # NoTimeout /\ clock >= x.since + x.limit
                  /\ \A id \in Started(x.h) \ x.before :
                         TaskOf(id).now >= x.since + x.limit
            /\ x.pc = "waiting" =>
                  /\ Started(x.h) \subseteq x.before
                  /\ x.limit # NoTimeout => clock <= x.since + x.limit

\* C15 as amended: a task suspended in wait_for_input resumes normally at
\* the start of the first callback task of the handler after the wait began,
\* which is at most T after it began when a timeout T was given, and by
\* nothing else; with a timeout T it raises the timeout when T has elapsed
\* with no callback task of the handler started in between; with no timeout
\* it stays suspended until a callback task of the handler starts.
C15_WokenByTaskStart ==
    /\ []WaitOutcomes
    /\ [][\A w \in Waiters :
             waiters[w].pc = "waiting" =>
                /\ (\E d \in Slots, i \in TaskSlots :
                        Starts(d, i) /\ disp[d].h = waiters[w].h)
                   <=> waiters'[w].pc = "returned"
                /\ waiters'[w].pc = "timeout" => waiters[w].limit # NoTimeout]_vars

\* One wait ended with the timeout and another, begun later, was resumed by
\* the callback task that started within its 2 seconds.
C15_Witness ==
    /\ waiters[1].pc = "timeout" /\ waiters[1].limit = 2
    /\ waiters[2].pc = "returned" /\ waiters[2].limit = 2
    /\ waiters[2].by = <<1, 1>>
    /\ tasks[1][1].now = waiters[2].since + 1

\* C15 as stated: a wait with timeout T resumes normally once any event is
\* delegated to the handler before T has elapsed, so a wait that ended with
\* the timeout saw no event delegated to its handler while it lasted; and a
\* wait with no timeout never ends with the timeout.
C15_AnyDispatchWakes ==
    \A w \in Waiters :
        waiters[w].pc = "timeout" =>
            waiters[w].events = {} /\ waiters[w].limit # NoTimeout

\* C19: the input signal is clear in every state; a wait that began after a
\* callback task had started is not resumed by that task but by one that
\* starts later; and the start of a callback task resumes every wait pending
\* on the handler at that moment.
C19_SignalPulse ==
    /\ [](\A h \in Handlers : ~inputted[h])
    /\ [](\A w \in Waiters :
             /\ (waiters[w].pc = "waiting" /\ waiters[w].before # {}) =>
                    waiters[w].by = NoTask
             /\ waiters[w].pc = "returned" =>
                    waiters[w].by \in Started(waiters[w].h) \ waiters[w].before)
    /\ [][\A d \in Slots, i \in TaskSlots :
             Starts(d, i) =>
                \A w \in Waiters :
                   (waiters[w].pc = "waiting" /\ waiters[w].h = disp[d].h) =>
                       waiters'[w].pc = "returned" /\ waiters'[w].by = <<d, i>>]_vars

\* Two waits began after the first task of the event had started; neither
\* returned on account of it, both were pending when the second task
\* started, and both were resumed by it.
C19_Witness ==
    /\ waiters[1].pc = "returned" /\ waiters[1].by = <<1, 2>>
    /\ waiters[1].before = {<<1, 1>>}
    /\ waiters[2].pc = "returned" /\ waiters[2].by = <<1, 2>>
    /\ waiters[2].before = {<<1, 1>>}

====
